---- MODULE Spec2Model ----
(***************************************************************************)
(* RxGuard: the clinical pipeline compiled by build_graph                  *)
(* (src/src/agentic/graph/builder.py) and run by check_medication          *)
(* (src/src/api/main.py).                                                  *)
(*                                                                         *)
(* One case is one call rxguard_app.invoke(initial_state).  The graph is   *)
(*   START -> extract -> confidence_gate -> retrieve -> reason -> critic   *)
(*         -> report -> END                       (gate "stop" -> END)     *)
(* Each node runs in the calling thread; a node that raises ends invoke    *)
(* with that exception (compile() is given no retry policy and no          *)
(* checkpointer), and the writes of a node are committed to the graph's    *)
(* state only when the node returns.                                       *)
(*                                                                         *)
(* builder.py imports the "extract" node under the name                    *)
(* context_extraction_node; the extraction node of the repository is       *)
(* extract_patient_profile (nodes/extract_profile.py) and is modelled as   *)
(* that node.                                                              *)
(*                                                                         *)
(* Optional values: None is the empty tuple, a present value v is <<v>>.   *)
(* Confidence is counted in hundredths (0.75 is 75).                       *)
(***************************************************************************)
EXTENDS Integers, Sequences, FiniteSets, TLC

(* ------------------------------ bounds -------------------------------- *)

\* Longest clinical note, in characters.
MaxNoteLen == 2

\* Number of chunks the guideline corpus is split into.
CorpusSize == 2

\* Largest index (in chunks) the search specification draws.
MaxIndexSize == 6

\* Process restarts considered: the index on disk outlives the process.
MaxRestarts == 1

(* ------------------------- program constants -------------------------- *)

\* extract_profile.py: CONFIDENCE_THRESHOLD = 0.75
CONFIDENCE_THRESHOLD == 75

\* conditionals.py: the literal 0.75 of confidence_gate
GATE_THRESHOLD == 75

\* settings.py: TOP_K_RETRIEVAL
TOP_K_RETRIEVAL == 5

(* --------------------------- optional values -------------------------- *)

None == <<>>
Some(v) == <<v>>
IsSet(o) == o # None
Val(o) == o[1]

\* The identifiers of the case slots (requests in flight in one process).
Cases == {"c1", "c2"}

(* ------------------------------ raw notes ----------------------------- *)

NoteChars == {" ", "a"}

Notes == UNION {[1..n -> NoteChars] : n \in 0..MaxNoteLen}

\* str.isspace of one character
IsSpace(ch) == ch = " "

RECURSIVE lstrip(_)
lstrip(s) == IF s = <<>> THEN <<>>
             ELSE IF IsSpace(Head(s)) THEN lstrip(Tail(s)) ELSE s

RECURSIVE rstrip(_)
rstrip(s) == IF s = <<>> THEN <<>>
             ELSE IF IsSpace(s[Len(s)]) THEN rstrip(SubSeq(s, 1, Len(s) - 1)) ELSE s

\* str.strip()
strip(s) == rstrip(lstrip(s))

(* ------------------- schemas (state/schemas.py) ----------------------- *)

\* PatientProfile values the extraction service may return
PatientProfile ==
    { [age |-> Some(65), sex |-> Some("male"),
       conditions |-> <<"Chronic Kidney Disease Stage 3">>,
       risk_factors |-> <<"renal impairment">>],
      [age |-> None, sex |-> None, conditions |-> <<>>, risk_factors |-> <<>>] }

\* ProposedMedication values the extraction service may return
ProposedMedication ==
    { [drug_name |-> Some("Ibuprofen"), dose_mg_per_unit |-> Some(800),
       frequency_per_day |-> Some(3), duration_days |-> Some(5),
       total_daily_dose_mg |-> Some(2400)] }

\* extraction_confidence values (hundredths) the extraction service may return
Confidences == {40, 74, 75, 100}

ExtractionResult ==
    [patient_profile : PatientProfile,
     proposed_medication : ProposedMedication,
     extraction_confidence : Confidences]

RiskAnalysis ==
    { [summary |-> "NSAID use in CKD", mechanism |-> "afferent arteriole constriction",
       evidence |-> <<[source |-> "kdigo.pdf", page |-> 12]>>, risk_level |-> "high"],
      [summary |-> "No specific evidence", mechanism |-> "none",
       evidence |-> <<>>, risk_level |-> "low"] }

SafetyLevels == {"info", "warning", "critical"}

SafetyFlag == [level : SafetyLevels, reason : {"renal risk"}]

\* What the reasoning service hands to safety_parser: a JSON object whose keys
\* may be missing (None); the empty object has neither key.
CriticOutputs ==
    {[level |-> Some(f.level), reason |-> Some(f.reason)] : f \in SafetyFlag}
        \cup {[level |-> None, reason |-> None]}

\* Failures of a reasoning-service call (prompt | llm | parser)
LlmErrors == {"OutputParserException", "APIConnectionError"}

(* ------------------ guideline corpus and the index -------------------- *)

\* Chunk i of the guideline corpus, as similarity_search returns it: a
\* Document with its metadata and its page_content.
Chunk(i) ==
    [metadata |-> [source |-> "kdigo.pdf", page |-> i],
     page_content |-> "chunk " \o ToString(i)]

RECURSIVE Perms(_)
Perms(S) == IF S = {} THEN {<<>>}
            ELSE UNION {{<<x>> \o p : p \in Perms(S \ {x})} : x \in S}

Min(a, b) == IF a < b THEN a ELSE b

\* The rankings similarity_search(query, k) may return over an index of n
\* chunks: the k nearest chunks, in any order of relevance.
Rankings(n, k) ==
    {SubSeq(p, 1, Min(k, n)) : p \in Perms(1..n)}

\* A FAISS index over the guideline corpus, known by the number of chunks it
\* holds.
Index(n) == [chunks |-> n]

(* -------------------------- the graph state --------------------------- *)

\* main.py: initial_state
InitialState(note) ==
    [raw_note |-> note,
     patient_profile |-> None,
     proposed_medication |-> None,
     confidence |-> None,
     retrieved_guidelines |-> None,
     risk_analysis |-> None,
     safety_flag |-> None,
     final_report |-> None]

NoCalls == [extract |-> 0, load |-> 0, build |-> 0, search |-> 0,
            reason |-> 0, critic |-> 0]

VARIABLES
    pc,               \* where each case is: idle, a node, an index step, end, raised, responded
    state,            \* the graph's state of each case (RxGuardState)
    initial_state,    \* the dict check_medication built and still holds
    result,           \* what invoke returned to check_medication (None: nothing)
    error,            \* the exception invoke raised into check_medication
    raisedAt,         \* the node whose body raised
    extraction,       \* run_extraction's local result: what the service returned
    trace,            \* the nodes and the gate, in the order they started
    calls,            \* external calls issued by each case, per kind
    audit,            \* audit events emitted by each case, in order
    response,         \* the HTTP status check_medication answered with
    query,            \* guideline_retrieval_node's local query
    results,          \* guideline_retrieval_node's local results: what the search returned
    critic_output,    \* the JSON object the reasoning service answered the critic with
    local_vs,         \* create_vectorstore's local vectorstore
    g_vectorstore,    \* module global _vectorstore
    g_embedding_model,\* module global _embedding_model
    disk,             \* settings.VECTOR_STORE_PATH: absent, partial, complete
    docs,             \* whether data/guidelines holds loadable PDFs
    index_log         \* history: successful loads and builds, and process restarts, in order

vars == <<pc, state, initial_state, result, error, raisedAt, extraction, trace,
          calls, audit, response, query, results, critic_output, local_vs,
          g_vectorstore, g_embedding_model, disk, docs, index_log>>

\* What an index step of get_vectorstore leaves alone in the case.
caseData == <<state, initial_state, result, extraction, audit, response, query,
              results, critic_output>>

indexVars == <<g_vectorstore, g_embedding_model, disk, docs, index_log>>

Init ==
    /\ pc = [c \in Cases |-> "idle"]
    /\ state = [c \in Cases |-> InitialState(<<>>)]
    /\ initial_state = [c \in Cases |-> InitialState(<<>>)]
    /\ result = [c \in Cases |-> None]
    /\ error = [c \in Cases |-> None]
    /\ raisedAt = [c \in Cases |-> None]
    /\ extraction = [c \in Cases |-> None]
    /\ trace = [c \in Cases |-> <<>>]
    /\ calls = [c \in Cases |-> NoCalls]
    /\ audit = [c \in Cases |-> <<>>]
    /\ response = [c \in Cases |-> None]
    /\ query = [c \in Cases |-> None]
    /\ results = [c \in Cases |-> None]
    /\ critic_output = [c \in Cases |-> None]
    /\ local_vs = [c \in Cases |-> None]
    /\ g_vectorstore = None
    /\ g_embedding_model = FALSE
    /\ disk \in {"absent", "complete"}
    /\ docs \in BOOLEAN
    /\ index_log = <<>>

(* ------------------------ control flow helpers ------------------------ *)

\* Edges with the reason node left out: retrieve is wired to critic.
EdgesSkipReason(node) ==
    CASE node = "extract"  -> "gate"
      [] node = "retrieve" -> "critic"
      [] node = "reason"   -> "critic"
      [] node = "critic"   -> "report"
      [] node = "report"   -> "end"

\* Edges with reason and critic wired in the wrong order.
EdgesSwapped(node) ==
    CASE node = "extract"  -> "gate"
      [] node = "retrieve" -> "critic"
      [] node = "critic"   -> "reason"
      [] node = "reason"   -> "report"
      [] node = "report"   -> "end"

\* Edges with an edge from critic back to reason.
EdgesCycle(node) ==
    CASE node = "extract"  -> "gate"
      [] node = "retrieve" -> "reason"
      [] node = "reason"   -> "critic"
      [] node = "critic"   -> "reason"
      [] node = "report"   -> "end"

\* builder.py: the edges out of each node.  The conditional edge out of
\* "extract" is the gate; the gate's path map is PathMap.
Edges(node) ==
    CASE node = "extract"  -> "gate"
      [] node = "retrieve" -> "reason"
      [] node = "reason"   -> "critic"
      [] node = "critic"   -> "report"
      [] node = "report"   -> "end"

\* builder.py: add_conditional_edges' path map
PathMap(branch) ==
    CASE branch = "retrieve" -> "retrieve"
      [] branch = "stop"     -> "end"

\* A node returns: control moves on, no exception is in flight.
Goto(c, node) ==
    /\ pc' = [pc EXCEPT ![c] = node]
    /\ UNCHANGED <<error, raisedAt>>

\* Raise with the exception swallowed: the failure is logged and the graph
\* goes on to the next node.
RaiseSwallowed(c, stage, exc) ==
    /\ pc' = [pc EXCEPT ![c] = Edges(stage)]
    /\ raisedAt' = [raisedAt EXCEPT ![c] = Some(stage)]
    /\ UNCHANGED error

\* Raise with the graph ending normally on the exception: invoke returns the
\* state reached so far.
RaiseReturnsState(c, stage, exc) ==
    /\ pc' = [pc EXCEPT ![c] = "end"]
    /\ error' = [error EXCEPT ![c] = Some(exc)]
    /\ raisedAt' = [raisedAt EXCEPT ![c] = Some(stage)]

\* Raise with a retry policy on the node: the failed node is run again.
RaiseRetry(c, stage, exc) ==
    /\ pc' = [pc EXCEPT ![c] = stage]
    /\ raisedAt' = [raisedAt EXCEPT ![c] = Some(stage)]
    /\ UNCHANGED error

\* A node of case c raises exc: nothing catches it inside the graph, so
\* invoke ends and the exception reaches check_medication's try block.
Raise(c, stage, exc) ==
    /\ pc' = [pc EXCEPT ![c] = "raised"]
    /\ error' = [error EXCEPT ![c] = Some(exc)]
    /\ raisedAt' = [raisedAt EXCEPT ![c] = Some(stage)]

Started(c, stage) == trace' = [trace EXCEPT ![c] = Append(@, stage)]

Called(c, kind) == calls' = [calls EXCEPT ![c][kind] = @ + 1]

\* No other request is being processed.
Quiet(c) == \A d \in Cases \ {c} : pc[d] = "idle"

(* ----------------------- main.py: check_medication -------------------- *)

\* Lines 68-81: build initial_state and call rxguard_app.invoke on it.  The
\* graph copies the input into its own state; initial_state is not touched
\* again.  The min_length of ClinicalNoteRequest is checked by the framework
\* before this function runs and is no part of the pipeline (src/app.py calls
\* invoke without it): the note is any of Notes, whatever its length.
check_medication(c, note) ==
    /\ pc[c] = "idle"
    /\ initial_state' = [initial_state EXCEPT ![c] = InitialState(note)]
    /\ state' = [state EXCEPT ![c] = InitialState(note)]
    /\ pc' = [pc EXCEPT ![c] = "extract"]
    /\ UNCHANGED <<result, error, raisedAt, extraction, trace, calls, audit,
                   response, query, results, critic_output, local_vs, indexVars>>

(* ------------------ extract_profile.py: the extract node -------------- *)

\* BaseModel.model_dump() of a PatientProfile
dump_patient_profile(m) ==
    [age |-> m.age, sex |-> m.sex, conditions |-> m.conditions,
     risk_factors |-> m.risk_factors]

\* BaseModel.model_dump() of a ProposedMedication
dump_proposed_medication(m) ==
    [drug_name |-> m.drug_name, dose_mg_per_unit |-> m.dose_mg_per_unit,
     frequency_per_day |-> m.frequency_per_day, duration_days |-> m.duration_days,
     total_daily_dose_mg |-> m.total_daily_dose_mg]

\* run_extraction reading the confidence as a percentage: the fraction is
\* scaled by 100 before the check and handed on scaled.
run_extraction_percent(r) ==
    LET p == [r EXCEPT !.extraction_confidence = @ * 100] IN
    IF p.extraction_confidence < CONFIDENCE_THRESHOLD
    THEN [raised |-> TRUE, value |-> p]
    ELSE [raised |-> FALSE, value |-> p]

\* run_extraction with a threshold of 0.50, below the gate's 0.75.
run_extraction_lenient(r) ==
    IF r.extraction_confidence < 50
    THEN [raised |-> TRUE, value |-> r]
    ELSE [raised |-> FALSE, value |-> r]

\* run_extraction without the threshold check: the result is handed on as
\* it came.
run_extraction_no_check(r) == [raised |-> FALSE, value |-> r]

\* run_extraction, after the chain returned `r`: the threshold check.
run_extraction(r) ==
    IF r.extraction_confidence < CONFIDENCE_THRESHOLD
    THEN [raised |-> TRUE, value |-> r]
    ELSE [raised |-> FALSE, value |-> r]

\* The input validation without the strip(): only the empty note is refused.
EmptyNoteNoStrip(raw_note) == raw_note = <<>>

\* extract_patient_profile: lines 86-88, the input validation
EmptyNote(raw_note) == raw_note = <<>> \/ strip(raw_note) = <<>>

extract_patient_profile(c) ==
    /\ pc[c] = "extract"
    /\ Started(c, "extract")
    /\ UNCHANGED <<initial_state, result, audit, response, query, results,
                   critic_output, local_vs, indexVars>>
    /\ IF EmptyNote(state[c].raw_note)
       THEN /\ Raise(c, "extract", "ValueError: Empty clinical note provided")
            /\ UNCHANGED <<state, extraction, calls>>
       ELSE /\ Called(c, "extract")
            /\ \/ \E exc \in LlmErrors :
                    /\ Raise(c, "extract", exc)
                    /\ UNCHANGED <<state, extraction>>
               \/ \E r \in ExtractionResult :
                    LET out == run_extraction(r) IN
                    /\ extraction' = [extraction EXCEPT ![c] = Some(r)]
                    /\ IF out.raised
                       THEN /\ Raise(c, "extract", "ValueError: Extraction confidence too low")
                            /\ UNCHANGED state
                       ELSE /\ state' = [state EXCEPT ![c] =
                                [@ EXCEPT
                                   !.patient_profile =
                                       Some(dump_patient_profile(out.value.patient_profile)),
                                   !.proposed_medication =
                                       Some(dump_proposed_medication(out.value.proposed_medication)),
                                   !.confidence = Some(out.value.extraction_confidence)]]
                            /\ Goto(c, Edges("extract"))

(* -------------------- conditionals.py: confidence_gate ---------------- *)

\* confidence_gate with the branches exchanged.
confidence_gate_inverted(st) ==
    IF st.confidence = None \/ Val(st.confidence) < GATE_THRESHOLD
    THEN "retrieve"
    ELSE "stop"

\* confidence_gate with <= for <: a confidence of exactly 0.75 stops.
confidence_gate_le(st) ==
    IF st.confidence = None \/ Val(st.confidence) <= GATE_THRESHOLD
    THEN "stop"
    ELSE "retrieve"

confidence_gate(st) ==
    IF st.confidence = None \/ Val(st.confidence) < GATE_THRESHOLD
    THEN "stop"
    ELSE "retrieve"

\* The gate consuming the confidence: the field is cleared once the branch
\* is taken.
GateConsumesConfidence(c) ==
    /\ pc[c] = "gate"
    /\ Started(c, "gate")
    /\ Goto(c, PathMap(confidence_gate(state[c])))
    /\ state' = [state EXCEPT ![c].confidence = None]
    /\ UNCHANGED <<initial_state, result, extraction, calls, audit,
                   response, query, results, critic_output, local_vs, indexVars>>

\* The conditional edge: the gate reads the state extract left and routes.
Gate(c) ==
    /\ pc[c] = "gate"
    /\ Started(c, "gate")
    /\ Goto(c, PathMap(confidence_gate(state[c])))
    /\ UNCHANGED <<state, initial_state, result, extraction, calls, audit,
                   response, query, results, critic_output, local_vs, indexVars>>

(* ------------- guideline_retrieval.py: the retrieve node -------------- *)

\* str.join
RECURSIVE Join(_, _)
Join(seq, sep) ==
    IF seq = <<>> THEN ""
    ELSE IF Len(seq) = 1 THEN seq[1]
    ELSE seq[1] \o sep \o Join(Tail(seq), sep)

\* An optional string inside an f-string: None prints as "None".
FmtStr(o) == IF o = None THEN "None" ELSE Val(o)

\* An optional int inside an f-string
FmtInt(o) == IF o = None THEN "None" ELSE ToString(Val(o))

\* guideline_retrieval_node, lines 93-103: the search query
BuildQuery(patient_profile, proposed_medication) ==
    "Prescribing guidance for " \o FmtStr(proposed_medication.drug_name) \o " "
        \o "in patients with " \o Join(patient_profile.conditions, ", ") \o " "
        \o "renal impairment contraindications dosing"

\* guideline_retrieval_node with the extraction confidence appended to the
\* query.
guideline_retrieval_node_conf(c) ==
    /\ pc[c] = "retrieve"
    /\ Started(c, "retrieve")
    /\ UNCHANGED <<state, initial_state, result, extraction, calls, audit,
                   response, results, critic_output, local_vs, indexVars>>
    /\ IF state[c].patient_profile = None \/ state[c].proposed_medication = None
       THEN /\ Raise(c, "retrieve", "TypeError: NoneType")
            /\ UNCHANGED query
       ELSE /\ query' = [query EXCEPT ![c] =
                  Some(BuildQuery(Val(state[c].patient_profile),
                                  Val(state[c].proposed_medication))
                       \o " " \o FmtInt(state[c].confidence))]
            /\ Goto(c, IF g_vectorstore = None THEN "vs_exists" ELSE "search")

\* The retrieve node with get_vectorstore ignoring the cached index.
guideline_retrieval_node_nocache(c) ==
    /\ pc[c] = "retrieve"
    /\ Started(c, "retrieve")
    /\ UNCHANGED <<state, initial_state, result, extraction, calls, audit,
                   response, results, critic_output, local_vs, indexVars>>
    /\ IF state[c].patient_profile = None \/ state[c].proposed_medication = None
       THEN /\ Raise(c, "retrieve", "TypeError: NoneType")
            /\ UNCHANGED query
       ELSE /\ query' = [query EXCEPT ![c] =
                  Some(BuildQuery(Val(state[c].patient_profile),
                                  Val(state[c].proposed_medication)))]
            /\ Goto(c, "vs_exists")

\* guideline_retrieval_node up to get_vectorstore's test of the global
\* (lines 93-106 and 64): build the query, then either reuse _vectorstore or
\* go on to look at the persisted path.
guideline_retrieval_node(c) ==
    /\ pc[c] = "retrieve"
    /\ Started(c, "retrieve")
    /\ UNCHANGED <<state, initial_state, result, extraction, calls, audit,
                   response, results, critic_output, local_vs, indexVars>>
    /\ IF state[c].patient_profile = None \/ state[c].proposed_medication = None
       THEN /\ Raise(c, "retrieve", "TypeError: NoneType")
            /\ UNCHANGED query
       ELSE /\ query' = [query EXCEPT ![c] =
                  Some(BuildQuery(Val(state[c].patient_profile),
                                  Val(state[c].proposed_medication)))]
            /\ Goto(c, IF g_vectorstore = None THEN "vs_exists" ELSE "search")

\* get_vectorstore, line 67: vectorstore_path.exists()
get_vectorstore(c) ==
    /\ pc[c] = "vs_exists"
    /\ Goto(c, IF disk # "absent" THEN "vs_load" ELSE "vs_build")
    /\ UNCHANGED <<caseData, trace, calls, local_vs, indexVars>>

\* get_vectorstore, lines 69-73: FAISS.load_local(path, get_embedding_model()).
\* A path that exists but is not completely written cannot be read, and the
\* embedding model may fail to load the first time it is asked for.
load_local(c) ==
    /\ pc[c] = "vs_load"
    /\ Called(c, "load")
    /\ UNCHANGED <<caseData, trace, local_vs, disk, docs>>
    /\ \/ /\ disk = "complete"
          /\ g_embedding_model' = TRUE
          /\ g_vectorstore' = Some(Index(CorpusSize))
          /\ index_log' = Append(index_log, "load")
          /\ Goto(c, "search")
       \/ /\ disk = "partial"
          /\ g_embedding_model' = TRUE
          /\ Raise(c, "retrieve", "RuntimeError: could not read index")
          /\ UNCHANGED <<g_vectorstore, index_log>>
       \/ /\ ~g_embedding_model
          /\ Raise(c, "retrieve", "OSError: embedding model unavailable")
          /\ UNCHANGED <<g_vectorstore, g_embedding_model, index_log>>

\* create_vectorstore, lines 34-55: load the PDFs, split, embed, build the
\* index in memory.  With no documents FAISS.from_documents raises.
create_vectorstore(c) ==
    /\ pc[c] = "vs_build"
    /\ Called(c, "build")
    /\ UNCHANGED <<caseData, trace, g_vectorstore, disk, docs, index_log>>
    /\ \/ /\ docs
          /\ g_embedding_model' = TRUE
          /\ local_vs' = [local_vs EXCEPT ![c] = Some(Index(CorpusSize))]
          /\ Goto(c, "vs_save")
       \/ /\ ~docs
          /\ g_embedding_model' = TRUE
          /\ Raise(c, "retrieve", "IndexError: list index out of range")
          /\ UNCHANGED local_vs
       \/ /\ ~g_embedding_model
          /\ Raise(c, "retrieve", "OSError: embedding model unavailable")
          /\ UNCHANGED <<local_vs, g_embedding_model>>

\* create_vectorstore, line 56: save_local creates the directory and starts
\* writing the index files.
save_local_begin(c) ==
    /\ pc[c] = "vs_save"
    /\ disk' = "partial"
    /\ Goto(c, "vs_saving")
    /\ UNCHANGED <<caseData, trace, calls, local_vs, g_vectorstore,
                   g_embedding_model, docs, index_log>>

\* save_local writing to a directory that is removed afterwards.
save_local_unpersisted(c) ==
    /\ pc[c] = "vs_saving"
    /\ disk' = "absent"
    /\ g_vectorstore' = local_vs[c]
    /\ index_log' = Append(index_log, "build")
    /\ Goto(c, "search")
    /\ UNCHANGED <<caseData, trace, calls, local_vs, g_embedding_model, docs>>

\* create_vectorstore, lines 56-58, and get_vectorstore, line 76: the files
\* are complete, create_vectorstore returns and _vectorstore is assigned.
save_local_end(c) ==
    /\ pc[c] = "vs_saving"
    /\ disk' = "complete"
    /\ g_vectorstore' = local_vs[c]
    /\ index_log' = Append(index_log, "build")
    /\ Goto(c, "search")
    /\ UNCHANGED <<caseData, trace, calls, local_vs, g_embedding_model, docs>>

\* The number of process restarts so far.
Restarts == Len(SelectSeq(index_log, LAMBDA e : e = "restart"))

\* guideline_retrieval.py, lines 17-19: the process ends between two
\* requests and a new one imports the module: _vectorstore and
\* _embedding_model start as None again, while VECTOR_STORE_PATH and
\* data/guidelines are on disk and stay as they are.
restart ==
    /\ \A c \in Cases : pc[c] = "idle"
    /\ Restarts < MaxRestarts
    /\ g_vectorstore' = None
    /\ g_embedding_model' = FALSE
    /\ index_log' = Append(index_log, "restart")
    /\ UNCHANGED <<pc, state, initial_state, result, error, raisedAt, extraction,
                   trace, calls, audit, response, query, results, critic_output,
                   local_vs, disk, docs>>

\* The list comprehension run over reversed(results).
FormatResultsReversed(found) ==
    [i \in 1..Len(found) |->
        [source |-> found[Len(found) + 1 - i].metadata.source,
         page |-> found[Len(found) + 1 - i].metadata.page,
         content |-> found[Len(found) + 1 - i].page_content]]

\* guideline_retrieval_node, lines 114-121: the list comprehension over the
\* documents the search returned.
FormatResults(found) ==
    [i \in 1..Len(found) |->
        [source |-> found[i].metadata.source,
         page |-> found[i].metadata.page,
         content |-> found[i].page_content]]

\* guideline_retrieval_node, lines 109-123: similarity_search and the write
\* of retrieved_guidelines.
similarity_search(c) ==
    /\ pc[c] = "search"
    /\ Called(c, "search")
    /\ UNCHANGED <<initial_state, result, extraction, trace, audit, response,
                   query, critic_output, local_vs, indexVars>>
    /\ \/ /\ Raise(c, "retrieve", "RuntimeError: similarity_search failed")
          /\ UNCHANGED <<state, results>>
       \/ \E ranking \in Rankings(Val(g_vectorstore).chunks, TOP_K_RETRIEVAL) :
            LET found == [i \in 1..Len(ranking) |-> Chunk(ranking[i])] IN
            /\ results' = [results EXCEPT ![c] = Some(found)]
            /\ state' = [state EXCEPT ![c].retrieved_guidelines =
                  Some(FormatResults(found))]
            /\ Goto(c, Edges("retrieve"))

(* ----------------- risk_reasoning.py: the reason node ----------------- *)

\* BaseModel.model_dump() of a RiskAnalysis
dump_risk_analysis(m) ==
    [summary |-> m.summary, mechanism |-> m.mechanism,
     evidence |-> [i \in 1..Len(m.evidence) |->
                     [source |-> m.evidence[i].source, page |-> m.evidence[i].page]],
     risk_level |-> m.risk_level]

\* The reason node, emptying the guidelines it has consumed.
risk_reasoning_node_consumes(c) ==
    /\ pc[c] = "reason"
    /\ Started(c, "reason")
    /\ UNCHANGED <<initial_state, result, extraction, audit, response, query,
                   results, critic_output, local_vs, indexVars>>
    /\ IF state[c].retrieved_guidelines = None
       THEN /\ Raise(c, "reason", "TypeError: NoneType")
            /\ UNCHANGED <<state, calls>>
       ELSE /\ Called(c, "reason")
            /\ \/ \E exc \in LlmErrors :
                    /\ Raise(c, "reason", exc)
                    /\ UNCHANGED state
               \/ \E risk \in RiskAnalysis :
                    /\ state' = [state EXCEPT ![c] =
                                    [@ EXCEPT
                                       !.retrieved_guidelines = Some(<<>>),
                                       !.risk_analysis =
                                           Some(dump_risk_analysis(risk))]]
                    /\ Goto(c, Edges("reason"))

risk_reasoning_node(c) ==
    /\ pc[c] = "reason"
    /\ Started(c, "reason")
    /\ UNCHANGED <<initial_state, result, extraction, audit, response, query,
                   results, critic_output, local_vs, indexVars>>
    /\ IF state[c].retrieved_guidelines = None
       THEN /\ Raise(c, "reason", "TypeError: NoneType")
            /\ UNCHANGED <<state, calls>>
       ELSE /\ Called(c, "reason")
            /\ \/ \E exc \in LlmErrors :
                    /\ Raise(c, "reason", exc)
                    /\ UNCHANGED state
               \/ \E risk \in RiskAnalysis :
                    /\ state' = [state EXCEPT ![c].risk_analysis =
                                    Some(dump_risk_analysis(risk))]
                    /\ Goto(c, Edges("reason"))

(* ------------------ safety_critic.py: the critic node ----------------- *)

\* str.upper() on the SafetyFlag levels
upper(s) ==
    CASE s = "info"     -> "INFO"
      [] s = "warning"  -> "WARNING"
      [] s = "critical" -> "CRITICAL"
      [] OTHER          -> s

\* safety_parser: PydanticOutputParser(SafetyFlag).  Both fields are required
\* and level must be one of the three literals.
safety_parser(out) ==
    IF out.level = None \/ out.reason = None \/ Val(out.level) \notin SafetyLevels
    THEN [raised |-> TRUE, value |-> [level |-> "", reason |-> ""]]
    ELSE [raised |-> FALSE, value |-> [level |-> Val(out.level), reason |-> Val(out.reason)]]

\* BaseModel.model_dump() of a SafetyFlag
dump_safety_flag(m) == [level |-> m.level, reason |-> m.reason]

\* An audit sink that keeps escalations only: INFO records are dropped.
EmitEscalatedOnly(c, event, level) ==
    IF level = "INFO"
    THEN UNCHANGED audit
    ELSE audit' = [audit EXCEPT ![c] = Append(@, [event |-> event, level |-> level])]

\* A record with clinical context handed to the structured logger: the
\* critic's logger.warning("SAFETY FLAG: ...", reason, patient_context) and
\* the report's log_clinical_event.  The progress lines of the nodes
\* (logger.info("--- ... ---"), "Safety check passed") carry no context and
\* are not audit records.
Emit(c, event, level) ==
    audit' = [audit EXCEPT ![c] = Append(@, [event |-> event, level |-> level])]

\* The critic's test with the warning level left out.
EscalatedCriticalOnly(level) == level = "critical"

\* safety_critic_node, line 75: flag.level in ["warning", "critical"]
Escalated(level) == level \in {"warning", "critical"}

safety_critic_node(c) ==
    /\ pc[c] = "critic"
    /\ Started(c, "critic")
    /\ Called(c, "critic")
    /\ UNCHANGED <<initial_state, result, extraction, response, query, results,
                   local_vs, indexVars>>
    /\ \/ /\ Raise(c, "critic", "APIConnectionError")
          /\ UNCHANGED <<state, audit, critic_output>>
       \/ \E out \in CriticOutputs :
            LET flag == safety_parser(out) IN
            /\ critic_output' = [critic_output EXCEPT ![c] = Some(out)]
            /\ IF flag.raised
               THEN /\ Raise(c, "critic", "OutputParserException")
                    /\ UNCHANGED <<state, audit>>
               ELSE /\ state' = [state EXCEPT ![c].safety_flag =
                                    Some(dump_safety_flag(flag.value))]
                    /\ IF Escalated(flag.value.level)
                       THEN Emit(c, "SAFETY FLAG", upper(flag.value.level))
                       ELSE UNCHANGED audit
                    /\ Goto(c, Edges("critic"))

(* ------------------- final_report.py: the report node ----------------- *)

\* str.upper() taken for str.capitalize(): the whole level in capitals.
capitalize_upper(s) ==
    CASE s = "low"      -> "LOW"
      [] s = "moderate" -> "MODERATE"
      [] s = "high"     -> "HIGH"
      [] OTHER          -> s

\* str.capitalize() on the RiskAnalysis risk levels
capitalize(s) ==
    CASE s = "low"      -> "Low"
      [] s = "moderate" -> "Moderate"
      [] s = "high"     -> "High"
      [] OTHER          -> s

\* The evidence list cut to its first citation.
FormatEvidenceFirstOnly(evidence) ==
    [i \in 1..Min(1, Len(evidence)) |->
        evidence[i].source \o " (page " \o ToString(evidence[i].page) \o ")"]

\* generate_clinical_report, lines 22-25: the guideline_evidence comprehension
FormatEvidence(evidence) ==
    [i \in 1..Len(evidence) |->
        evidence[i].source \o " (page " \o ToString(evidence[i].page) \o ")"]

\* generate_clinical_report naming the drug in patient_context.
generate_clinical_report_drug(patient_profile, proposed_medication, risk_analysis, safety_flag) ==
    [alert_level |-> upper(safety_flag.level),
     patient_context |->
         FmtInt(patient_profile.age) \o " year old "
             \o FmtStr(patient_profile.sex) \o " with "
             \o Join(patient_profile.conditions, ", ")
             \o " on " \o FmtStr(proposed_medication.drug_name),
     identified_risk |->
         risk_analysis.summary \o " " \o "Mechanism: " \o risk_analysis.mechanism \o ".",
     guideline_evidence |-> FormatEvidence(risk_analysis.evidence),
     confidence |-> capitalize(risk_analysis.risk_level)]

generate_clinical_report(patient_profile, proposed_medication, risk_analysis, safety_flag) ==
    [alert_level |-> upper(safety_flag.level),
     patient_context |->
         FmtInt(patient_profile.age) \o " year old "
             \o FmtStr(patient_profile.sex) \o " with "
             \o Join(patient_profile.conditions, ", "),
     identified_risk |->
         risk_analysis.summary \o " " \o "Mechanism: " \o risk_analysis.mechanism \o ".",
     guideline_evidence |-> FormatEvidence(risk_analysis.evidence),
     confidence |-> capitalize(risk_analysis.risk_level)]

\* final_report_node writing into one state record shared by all runs (a
\* module-level state such as schemas.py's `state`) instead of its own.
final_report_node_shared(c) ==
    /\ pc[c] = "report"
    /\ Started(c, "report")
    /\ UNCHANGED <<initial_state, result, extraction, calls, response, query,
                   results, critic_output, local_vs, indexVars>>
    /\ IF \/ state[c].patient_profile = None
          \/ state[c].proposed_medication = None
          \/ state[c].risk_analysis = None
          \/ state[c].safety_flag = None
       THEN /\ Raise(c, "report", "TypeError: NoneType")
            /\ UNCHANGED <<state, audit>>
       ELSE LET report == generate_clinical_report(
                              Val(state[c].patient_profile),
                              Val(state[c].proposed_medication),
                              Val(state[c].risk_analysis),
                              Val(state[c].safety_flag)) IN
            /\ state' = [d \in Cases |-> [state[d] EXCEPT !.final_report = Some(report)]]
            /\ Emit(c, "clinical_report_generated", report.alert_level)
            /\ Goto(c, Edges("report"))

final_report_node(c) ==
    /\ pc[c] = "report"
    /\ Started(c, "report")
    /\ UNCHANGED <<initial_state, result, extraction, calls, response, query,
                   results, critic_output, local_vs, indexVars>>
    /\ IF \/ state[c].patient_profile = None
          \/ state[c].proposed_medication = None
          \/ state[c].risk_analysis = None
          \/ state[c].safety_flag = None
       THEN /\ Raise(c, "report", "TypeError: NoneType")
            /\ UNCHANGED <<state, audit>>
       ELSE LET report == generate_clinical_report(
                              Val(state[c].patient_profile),
                              Val(state[c].proposed_medication),
                              Val(state[c].risk_analysis),
                              Val(state[c].safety_flag)) IN
            /\ state' = [state EXCEPT ![c].final_report = Some(report)]
            /\ Emit(c, "clinical_report_generated", report.alert_level)
            /\ Goto(c, Edges("report"))

(* --------------------- the end of invoke, the answer ------------------ *)

\* The graph reached END: invoke returns the graph's state.
invoke_return(c) ==
    /\ pc[c] = "end"
    /\ result' = [result EXCEPT ![c] = Some(state[c])]
    /\ Goto(c, "returned")
    /\ UNCHANGED <<state, initial_state, extraction, trace, calls, audit,
                   response, query, results, critic_output, local_vs, indexVars>>

\* An exception in flight in check_medication: its class, its status code
\* (0 for an exception that has none) and its text.
Exception(text) == [type |-> "Exception", status |-> 0, detail |-> text]

HTTPException(status_code, detail) ==
    [type |-> "HTTPException", status |-> status_code, detail |-> detail]

\* check_medication, lines 83-89: the test of the returned state.  The
\* confidence quoted in the detail is left out of the text.
CheckReport(res) ==
    IF res.final_report = None
    THEN Some(HTTPException(400,
            "Could not extract clinical information with sufficient confidence"))
    ELSE None

\* ClinicalReportResponse(**report): the five fields of the response model
ClinicalReportResponse(report) ==
    [alert_level |-> report.alert_level,
     patient_context |-> report.patient_context,
     identified_risk |-> report.identified_risk,
     guideline_evidence |-> report.guideline_evidence,
     confidence |-> report.confidence]

\* The except clauses with the first one missing: every exception of the try
\* block, the 400 included, is answered as a processing error.
ExceptClausesCatchAll(exc) ==
    HTTPException(500, "Processing error: " \o exc.detail)

\* check_medication, lines 97-101: `except HTTPException: raise` comes
\* first, `except Exception` turns everything else into a 500.
ExceptClauses(exc) ==
    IF exc.type = "HTTPException"
    THEN exc
    ELSE HTTPException(500, "Processing error: " \o exc.detail)

\* check_medication, lines 79-101: the answer to the request, from what
\* invoke returned or raised.
respond(c) ==
    /\ pc[c] \in {"returned", "raised"}
    /\ LET thrown == IF pc[c] = "raised"
                     THEN Some(Exception(Val(error[c])))
                     ELSE CheckReport(Val(result[c]))
       IN  response' = [response EXCEPT ![c] =
              IF thrown = None
              THEN Some([status |-> 200,
                         report |-> Some(ClinicalReportResponse(
                                             Val(Val(result[c]).final_report))),
                         detail |-> None])
              ELSE Some([status |-> ExceptClauses(Val(thrown)).status,
                         report |-> None,
                         detail |-> Some(ExceptClauses(Val(thrown)).detail)])]
    /\ Goto(c, "responded")
    /\ UNCHANGED <<state, initial_state, result, extraction, trace, calls,
                   audit, query, results, critic_output, local_vs, indexVars>>

\* The request is over: its locals are released; the slot serves the next
\* request.
release(c) ==
    /\ pc[c] = "responded"
    /\ pc' = [pc EXCEPT ![c] = "idle"]
    /\ state' = [state EXCEPT ![c] = InitialState(<<>>)]
    /\ initial_state' = [initial_state EXCEPT ![c] = InitialState(<<>>)]
    /\ result' = [result EXCEPT ![c] = None]
    /\ error' = [error EXCEPT ![c] = None]
    /\ raisedAt' = [raisedAt EXCEPT ![c] = None]
    /\ extraction' = [extraction EXCEPT ![c] = None]
    /\ trace' = [trace EXCEPT ![c] = <<>>]
    /\ calls' = [calls EXCEPT ![c] = NoCalls]
    /\ audit' = [audit EXCEPT ![c] = <<>>]
    /\ response' = [response EXCEPT ![c] = None]
    /\ query' = [query EXCEPT ![c] = None]
    /\ results' = [results EXCEPT ![c] = None]
    /\ critic_output' = [critic_output EXCEPT ![c] = None]
    /\ local_vs' = [local_vs EXCEPT ![c] = None]
    /\ UNCHANGED indexVars

(* ------------- schemas.py: validation of a stored dictionary ---------- *)

\* Model.model_validate(d) for the schemas of schemas.py: a field without a
\* default must be present (Optional[...] fields too, they have none), a
\* field with a default is filled in when absent, keys the schema does not
\* declare are ignored.  The stored dictionaries come out of model_dump, so
\* their values already have the declared types.

\* model_validate of a PatientProfile with a field validator on sex that
\* abbreviates it: "male" becomes "M", "female" becomes "F".
validate_patient_profile_abbrev(d) ==
    IF {"age", "sex"} \subseteq DOMAIN d
    THEN [raised |-> FALSE,
          value |-> [age |-> d.age,
                     sex |-> IF d.sex = Some("male") THEN Some("M")
                             ELSE IF d.sex = Some("female") THEN Some("F")
                             ELSE d.sex,
                     conditions |->
                         IF "conditions" \in DOMAIN d THEN d.conditions ELSE <<>>,
                     risk_factors |->
                         IF "risk_factors" \in DOMAIN d THEN d.risk_factors ELSE <<>>]]
    ELSE [raised |-> TRUE, value |-> <<>>]

validate_patient_profile(d) ==
    IF {"age", "sex"} \subseteq DOMAIN d
    THEN [raised |-> FALSE,
          value |-> [age |-> d.age, sex |-> d.sex,
                     conditions |->
                         IF "conditions" \in DOMAIN d THEN d.conditions ELSE <<>>,
                     risk_factors |->
                         IF "risk_factors" \in DOMAIN d THEN d.risk_factors ELSE <<>>]]
    ELSE [raised |-> TRUE, value |-> <<>>]

validate_proposed_medication(d) ==
    IF {"drug_name", "dose_mg_per_unit", "frequency_per_day", "duration_days",
        "total_daily_dose_mg"} \subseteq DOMAIN d
    THEN [raised |-> FALSE,
          value |-> [drug_name |-> d.drug_name,
                     dose_mg_per_unit |-> d.dose_mg_per_unit,
                     frequency_per_day |-> d.frequency_per_day,
                     duration_days |-> d.duration_days,
                     total_daily_dose_mg |-> d.total_daily_dose_mg]]
    ELSE [raised |-> TRUE, value |-> <<>>]

validate_risk_analysis(d) ==
    IF /\ {"summary", "mechanism", "evidence", "risk_level"} \subseteq DOMAIN d
       /\ \A i \in 1..Len(d.evidence) : {"source", "page"} \subseteq DOMAIN d.evidence[i]
       /\ d.risk_level \in {"low", "moderate", "high"}
    THEN [raised |-> FALSE,
          value |-> [summary |-> d.summary, mechanism |-> d.mechanism,
                     evidence |-> [i \in 1..Len(d.evidence) |->
                                     [source |-> d.evidence[i].source,
                                      page |-> d.evidence[i].page]],
                     risk_level |-> d.risk_level]]
    ELSE [raised |-> TRUE, value |-> <<>>]

validate_safety_flag(d) ==
    IF {"level", "reason"} \subseteq DOMAIN d /\ d.level \in SafetyLevels
    THEN [raised |-> FALSE, value |-> [level |-> d.level, reason |-> d.reason]]
    ELSE [raised |-> TRUE, value |-> <<>>]

(* --------------------------- specifications --------------------------- *)

\* One step of the pipeline of case c.
Step(c) ==
    \/ extract_patient_profile(c)
    \/ Gate(c)
    \/ guideline_retrieval_node(c)
    \/ get_vectorstore(c)
    \/ load_local(c)
    \/ create_vectorstore(c)
    \/ save_local_begin(c)
    \/ save_local_end(c)
    \/ similarity_search(c)
    \/ risk_reasoning_node(c)
    \/ safety_critic_node(c)
    \/ final_report_node(c)
    \/ invoke_return(c)
    \/ respond(c)
    \/ release(c)

\* check_medication is an async def that calls the blocking invoke: the
\* event loop takes the next request only when the current one is answered.
Next ==
    \/ \E c \in Cases :
        \/ \E note \in Notes : Quiet(c) /\ check_medication(c, note)
        \/ Step(c)
    \/ restart

Spec == Init /\ [][Next]_vars

\* rxguard_app.invoke (main.py, line 81) on the graph compiled at
\* builder.py, line 55: the steps of one run, from the first node to the
\* return or the exception.
Run(c) ==
    \/ extract_patient_profile(c)
    \/ Gate(c)
    \/ guideline_retrieval_node(c)
    \/ get_vectorstore(c)
    \/ load_local(c)
    \/ create_vectorstore(c)
    \/ save_local_begin(c)
    \/ save_local_end(c)
    \/ similarity_search(c)
    \/ risk_reasoning_node(c)
    \/ safety_critic_node(c)
    \/ final_report_node(c)
    \/ invoke_return(c)

\* invoke is a blocking call that runs the graph to its end, and every
\* external call returns or fails: a run that can take a step takes one.
Fairness == \A c \in Cases : WF_vars(Run(c))

SpecLive == Init /\ [][Next]_vars /\ Fairness

(* ------------- confidence_gate as a function of the state ------------ *)

Optional(S) == {None} \cup {Some(v) : v \in S}

\* The states confidence_gate is applied to: every combination of set and
\* unset extraction fields and every confidence, the absent one included.
GateInputs ==
    [raw_note : Notes,
     patient_profile : Optional({dump_patient_profile(m) : m \in PatientProfile}),
     proposed_medication : Optional({dump_proposed_medication(m) : m \in ProposedMedication}),
     confidence : Optional(Confidences),
     retrieved_guidelines : {None, Some(<<>>)},
     risk_analysis : {None},
     safety_flag : {None},
     final_report : {None}]

InitGate ==
    /\ \E c \in Cases : \E st \in GateInputs :
          /\ pc = [d \in Cases |-> IF d = c THEN "gate" ELSE "idle"]
          /\ state = [d \in Cases |-> IF d = c THEN st ELSE InitialState(<<>>)]
          /\ initial_state =
                [d \in Cases |-> InitialState(IF d = c THEN st.raw_note ELSE <<>>)]
          /\ trace = [d \in Cases |-> IF d = c THEN <<"extract">> ELSE <<>>]
    /\ result = [c \in Cases |-> None]
    /\ error = [c \in Cases |-> None]
    /\ raisedAt = [c \in Cases |-> None]
    /\ extraction = [c \in Cases |-> None]
    /\ calls = [c \in Cases |-> NoCalls]
    /\ audit = [c \in Cases |-> <<>>]
    /\ response = [c \in Cases |-> None]
    /\ query = [c \in Cases |-> None]
    /\ results = [c \in Cases |-> None]
    /\ critic_output = [c \in Cases |-> None]
    /\ local_vs = [c \in Cases |-> None]
    /\ g_vectorstore = None
    /\ g_embedding_model = FALSE
    /\ disk = "complete"
    /\ docs = TRUE
    /\ index_log = <<>>

NextGate == \E c \in Cases : Gate(c)

SpecGate == InitGate /\ [][NextGate]_vars

(* ------------------- concurrent runs of the graph --------------------- *)

\* rxguard_app is one compiled graph held by the module; invoke may be called
\* on it from several threads of one process (a threaded server, the
\* Streamlit sessions of src/app.py), and nothing in the graph or in
\* get_vectorstore takes a lock.  Two runs that have both passed the gate go
\* on from "retrieve" in any interleaving of their steps.

\* The extraction results run_extraction hands on, at full confidence.
PassingResults ==
    {r \in ExtractionResult :
        ~run_extraction(r).raised /\ r.extraction_confidence = 100}

\* The state the extract node leaves for extraction result r of `note`.
ExtractedState(note, r) ==
    [InitialState(note) EXCEPT
        !.patient_profile = Some(dump_patient_profile(r.patient_profile)),
        !.proposed_medication = Some(dump_proposed_medication(r.proposed_medication)),
        !.confidence = Some(r.extraction_confidence)]

InitConc ==
    /\ \E rs \in [Cases -> PassingResults] :
          /\ extraction = [c \in Cases |-> Some(rs[c])]
          /\ state = [c \in Cases |-> ExtractedState(<<"a">>, rs[c])]
    /\ initial_state = [c \in Cases |-> InitialState(<<"a">>)]
    /\ pc = [c \in Cases |-> "retrieve"]
    /\ trace = [c \in Cases |-> <<"extract", "gate">>]
    /\ calls = [c \in Cases |-> [NoCalls EXCEPT !.extract = 1]]
    /\ result = [c \in Cases |-> None]
    /\ error = [c \in Cases |-> None]
    /\ raisedAt = [c \in Cases |-> None]
    /\ audit = [c \in Cases |-> <<>>]
    /\ response = [c \in Cases |-> None]
    /\ query = [c \in Cases |-> None]
    /\ results = [c \in Cases |-> None]
    /\ critic_output = [c \in Cases |-> None]
    /\ local_vs = [c \in Cases |-> None]
    /\ g_vectorstore = None
    /\ g_embedding_model = FALSE
    /\ disk \in {"absent", "complete"}
    /\ docs \in BOOLEAN
    /\ index_log = <<>>

\* One step of a run that has passed the gate.
StepConc(c) ==
    \/ guideline_retrieval_node(c)
    \/ get_vectorstore(c)
    \/ load_local(c)
    \/ create_vectorstore(c)
    \/ save_local_begin(c)
    \/ save_local_end(c)
    \/ similarity_search(c)
    \/ risk_reasoning_node(c)
    \/ safety_critic_node(c)
    \/ final_report_node(c)
    \/ invoke_return(c)
    \/ respond(c)

NextConc == \E c \in Cases : StepConc(c)

SpecConc == InitConc /\ [][NextConc]_vars

(* ------------- the answer as a function of invoke's outcome ----------- *)

\* The notes the extract node's validation lets through
AcceptedNotes == {note \in Notes : ~EmptyNote(note)}

\* The states invoke may hand back without a report: what extract wrote, at
\* any confidence.
HaltedStates ==
    {ExtractedState(note, r) : note \in AcceptedNotes, r \in ExtractionResult}

\* The states invoke may hand back with a report: every field written.
ReportedStates ==
    {[ExtractedState(note, r) EXCEPT
         !.retrieved_guidelines = Some(FormatResults(<<Chunk(1)>>)),
         !.risk_analysis = Some(dump_risk_analysis(risk)),
         !.safety_flag = Some(dump_safety_flag(flag)),
         !.final_report =
             Some(generate_clinical_report(
                      dump_patient_profile(r.patient_profile),
                      dump_proposed_medication(r.proposed_medication),
                      dump_risk_analysis(risk), dump_safety_flag(flag)))] :
        note \in AcceptedNotes, r \in PassingResults,
        risk \in RiskAnalysis, flag \in SafetyFlag}

\* The exceptions invoke may raise
StageErrors ==
    LlmErrors \cup {"ValueError: Empty clinical note provided",
                    "ValueError: Extraction confidence too low",
                    "IndexError: list index out of range",
                    "RuntimeError: similarity_search failed"}

InitRespond ==
    /\ \E c \in Cases :
          \/ \E st \in HaltedStates \cup ReportedStates :
                /\ pc = [d \in Cases |-> IF d = c THEN "returned" ELSE "idle"]
                /\ state = [d \in Cases |-> IF d = c THEN st ELSE InitialState(<<>>)]
                /\ result = [d \in Cases |-> IF d = c THEN Some(st) ELSE None]
                /\ error = [d \in Cases |-> None]
          \/ \E exc \in StageErrors :
                /\ pc = [d \in Cases |-> IF d = c THEN "raised" ELSE "idle"]
                /\ state = [d \in Cases |->
                              InitialState(IF d = c THEN <<"a">> ELSE <<>>)]
                /\ result = [d \in Cases |-> None]
                /\ error = [d \in Cases |-> IF d = c THEN Some(exc) ELSE None]
    /\ initial_state = [c \in Cases |-> InitialState(state[c].raw_note)]
    /\ raisedAt = [c \in Cases |-> IF IsSet(error[c]) THEN Some("extract") ELSE None]
    /\ extraction = [c \in Cases |-> None]
    /\ trace = [c \in Cases |-> <<>>]
    /\ calls = [c \in Cases |-> NoCalls]
    /\ audit = [c \in Cases |-> <<>>]
    /\ response = [c \in Cases |-> None]
    /\ query = [c \in Cases |-> None]
    /\ results = [c \in Cases |-> None]
    /\ critic_output = [c \in Cases |-> None]
    /\ local_vs = [c \in Cases |-> None]
    /\ g_vectorstore = None
    /\ g_embedding_model = FALSE
    /\ disk = "complete"
    /\ docs = TRUE
    /\ index_log = <<>>

NextRespond == \E c \in Cases : respond(c)

SpecRespond == InitRespond /\ [][NextRespond]_vars

(* ------------- the query as a function of the state ------------------ *)

\* The medications the query is built for: the extracted ones, one without a
\* drug name and one with another drug.
QueryMedications ==
    {dump_proposed_medication(m) : m \in ProposedMedication}
        \cup {[drug_name |-> None, dose_mg_per_unit |-> None,
               frequency_per_day |-> None, duration_days |-> None,
               total_daily_dose_mg |-> None],
              [drug_name |-> Some("Aspirin"), dose_mg_per_unit |-> Some(325),
               frequency_per_day |-> Some(1), duration_days |-> None,
               total_daily_dose_mg |-> Some(325)]}

\* The states the retrieve node is run on: every profile and medication, with
\* the other fields varied.
QueryInputs ==
    [raw_note : {<<"a">>, <<"a", "a">>},
     patient_profile : {Some(dump_patient_profile(m)) : m \in PatientProfile},
     proposed_medication : {Some(m) : m \in QueryMedications},
     confidence : {Some(75), Some(100)},
     retrieved_guidelines : {None},
     risk_analysis : {None},
     safety_flag : {None},
     final_report : {None}]

\* Two runs at the retrieve node, in a process whose index is in any of the
\* conditions earlier runs may have left it in.
InitQuery ==
    /\ state \in [Cases -> QueryInputs]
    /\ initial_state = [c \in Cases |-> InitialState(state[c].raw_note)]
    /\ pc = [c \in Cases |-> "retrieve"]
    /\ trace = [c \in Cases |-> <<"extract", "gate">>]
    /\ calls = [c \in Cases |-> [NoCalls EXCEPT !.extract = 1]]
    /\ extraction = [c \in Cases |-> None]
    /\ result = [c \in Cases |-> None]
    /\ error = [c \in Cases |-> None]
    /\ raisedAt = [c \in Cases |-> None]
    /\ audit = [c \in Cases |-> <<>>]
    /\ response = [c \in Cases |-> None]
    /\ query = [c \in Cases |-> None]
    /\ results = [c \in Cases |-> None]
    /\ critic_output = [c \in Cases |-> None]
    /\ local_vs = [c \in Cases |-> None]
    /\ g_vectorstore \in {None} \cup {Some(Index(n)) : n \in 1..CorpusSize}
    /\ g_embedding_model = IsSet(g_vectorstore)
    /\ disk \in {"absent", "complete"}
    /\ docs = TRUE
    /\ index_log = <<>>

NextQuery == \E c \in Cases : guideline_retrieval_node(c)

SpecQuery == InitQuery /\ [][NextQuery]_vars

(* ------------- the write of retrieved_guidelines ---------------------- *)

\* One run about to search an index of any size up to MaxIndexSize.
InitSearch ==
    /\ \E c \in Cases : \E r \in PassingResults :
          /\ pc = [d \in Cases |-> IF d = c THEN "search" ELSE "idle"]
          /\ state = [d \in Cases |->
                IF d = c THEN ExtractedState(<<"a">>, r) ELSE InitialState(<<>>)]
          /\ extraction = [d \in Cases |-> IF d = c THEN Some(r) ELSE None]
          /\ query = [d \in Cases |->
                IF d = c
                THEN Some(BuildQuery(dump_patient_profile(r.patient_profile),
                                     dump_proposed_medication(r.proposed_medication)))
                ELSE None]
          /\ trace = [d \in Cases |->
                IF d = c THEN <<"extract", "gate", "retrieve">> ELSE <<>>]
          /\ calls = [d \in Cases |->
                IF d = c THEN [NoCalls EXCEPT !.extract = 1, !.load = 1] ELSE NoCalls]
    /\ initial_state = [c \in Cases |-> InitialState(state[c].raw_note)]
    /\ result = [c \in Cases |-> None]
    /\ error = [c \in Cases |-> None]
    /\ raisedAt = [c \in Cases |-> None]
    /\ audit = [c \in Cases |-> <<>>]
    /\ response = [c \in Cases |-> None]
    /\ results = [c \in Cases |-> None]
    /\ critic_output = [c \in Cases |-> None]
    /\ local_vs = [c \in Cases |-> None]
    /\ g_vectorstore \in {Some(Index(n)) : n \in 1..MaxIndexSize}
    /\ g_embedding_model = TRUE
    /\ disk = "complete"
    /\ docs = TRUE
    /\ index_log = <<>>

NextSearch == \E c \in Cases : similarity_search(c)

SpecSearch == InitSearch /\ [][NextSearch]_vars

(* ------------- the report as a function of the state ----------------- *)

\* The evidence lists a risk analysis may cite: none, one citation, two
\* citations of different sources.
EvidenceLists ==
    {<<>>,
     <<[source |-> "kdigo.pdf", page |-> 12]>>,
     <<[source |-> "nice.pdf", page |-> 3], [source |-> "kdigo.pdf", page |-> 12]>>}

\* The risk analyses the report is rendered from: every risk level with
\* every evidence list.
ReportRiskAnalyses ==
    {dump_risk_analysis(
         [summary |-> "NSAID use in CKD", mechanism |-> "afferent arteriole constriction",
          evidence |-> e, risk_level |-> l]) :
        e \in EvidenceLists, l \in {"low", "moderate", "high"}}

\* The states the report node is run on: every field before final_report
\* set, the fields the report does not read varied.
ReportInputs ==
    [raw_note : {<<"a">>},
     patient_profile : {Some(dump_patient_profile(m)) : m \in PatientProfile},
     proposed_medication :
         {Some(m) : m \in {q \in QueryMedications : IsSet(q.drug_name)}},
     confidence : {Some(75), Some(100)},
     retrieved_guidelines : {Some(FormatResults(<<Chunk(1)>>))},
     risk_analysis : {Some(ra) : ra \in ReportRiskAnalyses},
     safety_flag : {Some(dump_safety_flag(f)) : f \in SafetyFlag},
     final_report : {None}]

\* Two runs at the report node.
InitReport ==
    /\ state \in [Cases -> ReportInputs]
    /\ initial_state = [c \in Cases |-> InitialState(state[c].raw_note)]
    /\ pc = [c \in Cases |-> "report"]
    /\ trace = [c \in Cases |-> <<"extract", "gate", "retrieve", "reason", "critic">>]
    /\ calls = [c \in Cases |->
          [extract |-> 1, load |-> 0, build |-> 0, search |-> 1,
           reason |-> 1, critic |-> 1]]
    /\ audit = [c \in Cases |->
          IF Escalated(Val(state[c].safety_flag).level)
          THEN <<[event |-> "SAFETY FLAG",
                  level |-> upper(Val(state[c].safety_flag).level)]>>
          ELSE <<>>]
    /\ extraction = [c \in Cases |-> None]
    /\ result = [c \in Cases |-> None]
    /\ error = [c \in Cases |-> None]
    /\ raisedAt = [c \in Cases |-> None]
    /\ response = [c \in Cases |-> None]
    /\ query = [c \in Cases |-> None]
    /\ results = [c \in Cases |-> None]
    /\ critic_output = [c \in Cases |-> None]
    /\ local_vs = [c \in Cases |-> None]
    /\ g_vectorstore = Some(Index(CorpusSize))
    /\ g_embedding_model = TRUE
    /\ disk = "complete"
    /\ docs = TRUE
    /\ index_log = <<>>

NextReport == \E c \in Cases : final_report_node(c)

SpecReport == InitReport /\ [][NextReport]_vars

(* ------------------------------ properties ---------------------------- *)

Last(s) == s[Len(s)]

Occurs(x, s) == \E i \in 1..Len(s) : s[i] = x

\* The run of case c returned a state to check_medication.
Completed(c) == result[c] # None

\* The confidence of state st is present and at least 0.75.
Confident(st) == IsSet(st.confidence) /\ Val(st.confidence) >= 75

\* C1: for every case run that completes (invoke returns a state rather than
\* raising), final_report is set if and only if the confidence stored in the
\* state is present and >= 0.75.
C1_ReportIffConfident ==
    \A c \in Cases :
        Completed(c) =>
            (IsSet(Val(result[c]).final_report) <=> Confident(Val(result[c])))

\* A run completed with a report at a confidence of exactly 0.75.
C1_Witness ==
    \E c \in Cases :
        /\ Completed(c)
        /\ IsSet(Val(result[c]).final_report)
        /\ Val(result[c]).confidence = Some(75)

\* Forward-only population of one state, in the field order
\* patient_profile/proposed_medication/confidence, retrieved_guidelines,
\* risk_analysis, safety_flag, final_report.
ForwardOnly(st) ==
    LET extracted == IsSet(st.patient_profile) /\ IsSet(st.proposed_medication)
                        /\ IsSet(st.confidence)
        anyExtracted == IsSet(st.patient_profile) \/ IsSet(st.proposed_medication)
                        \/ IsSet(st.confidence)
    IN  /\ anyExtracted => extracted
        /\ IsSet(st.retrieved_guidelines) => extracted
        /\ IsSet(st.risk_analysis) => IsSet(st.retrieved_guidelines)
        /\ IsSet(st.safety_flag) => IsSet(st.risk_analysis)
        /\ IsSet(st.final_report) => IsSet(st.safety_flag)

\* The second alternative of the completion invariant: confidence below the
\* threshold and every field after confidence unset.
HaltedShape(st) ==
    /\ IsSet(st.confidence) /\ Val(st.confidence) < 75
    /\ st.retrieved_guidelines = None
    /\ st.risk_analysis = None
    /\ st.safety_flag = None
    /\ st.final_report = None

\* C2: in every reachable state of a case, a failed stage included, no later
\* field is set while an earlier field is unset; and at pipeline completion
\* exactly one of {final_report set} or {confidence < threshold and the
\* fields after confidence all unset} holds.
C2_ForwardOnly ==
    \A c \in Cases :
        /\ ForwardOnly(state[c])
        /\ Completed(c) =>
              /\ ForwardOnly(Val(result[c]))
              /\ IsSet(Val(result[c]).final_report) # HaltedShape(Val(result[c]))

\* A run completed with every field set.
C2_Witness ==
    \E c \in Cases :
        /\ Completed(c)
        /\ \A f \in DOMAIN Val(result[c]) \ {"raw_note"} : IsSet(Val(result[c])[f])

\* The extraction service answered case c with a confidence below 0.75.
LowConfidence(c) ==
    IsSet(extraction[c]) /\ Val(extraction[c]).extraction_confidence < 75

IndexSteps == {"vs_exists", "vs_load", "vs_build", "vs_save", "vs_saving", "search"}

\* C3: once the extraction service has returned a confidence below the
\* threshold, final_report stays unset, the retrieve, reason, critic and
\* report nodes never execute, and the case never loads, builds or queries
\* the retrieval index.
C3_LowConfidenceStopsEverything ==
    \A c \in Cases :
        LowConfidence(c) =>
            /\ state[c].final_report = None
            /\ Completed(c) => Val(result[c]).final_report = None
            /\ \A n \in {"retrieve", "reason", "critic", "report"} :
                  ~Occurs(n, trace[c]) /\ pc[c] # n
            /\ pc[c] \notin IndexSteps
            /\ calls[c].load = 0 /\ calls[c].build = 0 /\ calls[c].search = 0
            /\ query[c] = None /\ local_vs[c] = None

\* A run whose extraction came back at 0.40 has been answered.
C3_Witness ==
    \E c \in Cases :
        /\ IsSet(extraction[c])
        /\ Val(extraction[c]).extraction_confidence = 40
        /\ pc[c] = "responded"

\* The run of case c is over: invoke returned or raised.
Over(c) == pc[c] \in {"returned", "raised", "responded"}

\* C4: a low-confidence extraction is a non-error outcome: when the
\* extraction confidence is below the threshold the run ends by returning
\* the state to the caller with final_report unset and no error raised.
C4_LowConfidenceIsHalt ==
    \A c \in Cases :
        (LowConfidence(c) /\ Over(c)) =>
            /\ error[c] = None
            /\ Completed(c)
            /\ Val(result[c]).final_report = None

\* The note consists of whitespace only (the empty note included).
Whitespace(note) == \A i \in 1..Len(note) : note[i] = " "

\* C5: for every raw_note that is empty or whitespace-only the run fails with
\* the validation error before any reasoning-service or retrieval-service
\* call is made and before any state field other than raw_note is set.
C5_EmptyNoteRejected ==
    \A c \in Cases :
        (Whitespace(state[c].raw_note) /\ pc[c] \notin {"idle", "extract"}) =>
            /\ pc[c] \in {"raised", "responded"}
            /\ error[c] = Some("ValueError: Empty clinical note provided")
            /\ raisedAt[c] = Some("extract")
            /\ calls[c] = NoCalls
            /\ extraction[c] = None
            /\ state[c] = InitialState(state[c].raw_note)
            /\ result[c] = None

\* A whitespace-only note of two blanks has been refused.
C5_Witness ==
    \E c \in Cases :
        /\ state[c].raw_note = <<" ", " ">>
        /\ pc[c] = "raised"

StageOrder == <<"extract", "gate", "retrieve", "reason", "critic", "report">>

IsPrefix(s, t) == Len(s) <= Len(t) /\ \A i \in 1..Len(s) : s[i] = t[i]

\* The fields the stages before `stage` write.
WrittenBefore(stage) ==
    CASE stage = "extract"  -> {}
      [] stage = "gate"     -> {"patient_profile", "proposed_medication", "confidence"}
      [] stage = "retrieve" -> {"patient_profile", "proposed_medication", "confidence"}
      [] stage = "reason"   -> {"patient_profile", "proposed_medication", "confidence",
                                "retrieved_guidelines"}
      [] stage = "critic"   -> {"patient_profile", "proposed_medication", "confidence",
                                "retrieved_guidelines", "risk_analysis"}
      [] stage = "report"   -> {"patient_profile", "proposed_medication", "confidence",
                                "retrieved_guidelines", "risk_analysis", "safety_flag"}

\* C6: within one case the stages execute strictly in the order Extraction,
\* ConfidenceGate, Retrieval, RiskReasoning, SafetyCritic, Report: the stages
\* started so far are a prefix of that order, a stage starts only when the
\* fields of the stages before it are written, the stage about to start is
\* the next of the order, and a run that produced a report ran all six.
C6_StageOrder ==
    \A c \in Cases :
        /\ IsPrefix(trace[c], StageOrder)
        /\ \A i \in 1..Len(trace[c]) :
              \A f \in WrittenBefore(trace[c][i]) : IsSet(state[c][f])
        /\ \A i \in 1..Len(StageOrder) :
              pc[c] = StageOrder[i] => trace[c] = SubSeq(StageOrder, 1, i - 1)
        /\ IsSet(state[c].final_report) => trace[c] = StageOrder

\* A run went through all six stages and returned.
C6_Witness ==
    \E c \in Cases : pc[c] = "returned" /\ trace[c] = StageOrder

\* C7: confidence_gate returns continue ("retrieve") exactly when
\* state.confidence is present and >= 0.75, returns halt ("stop", the graph's
\* END) for every other value, an absent confidence included, and modifies no
\* field of the state.
C7_GateDecision ==
    /\ [](\A c \in Cases :
            (trace[c] # <<>> /\ Last(trace[c]) = "gate") =>
                /\ pc[c] = "retrieve" <=> Confident(state[c])
                /\ pc[c] = "end" <=> ~Confident(state[c]))
    /\ [][\A c \in Cases : pc[c] = "gate" => state'[c] = state[c]]_vars

\* The gate halted a state whose confidence is absent.
C7_Witness ==
    \E c \in Cases :
        /\ trace[c] # <<>> /\ Last(trace[c]) = "gate"
        /\ state[c].confidence = None
        /\ pc[c] = "end"

\* The terminal audit event of the report node is among the events of case c.
TerminalAudit(c) ==
    \E i \in 1..Len(audit[c]) : audit[c][i].event = "clinical_report_generated"

\* C8: when a stage fails the case is aborted: no later stage executes,
\* final_report is never set, no terminal audit event is emitted, and the
\* failure reaches the caller (as the exception, answered with a 500) instead
\* of being swallowed.
C8_FailureAborts ==
    \A c \in Cases :
        IsSet(raisedAt[c]) =>
            /\ pc[c] \in {"raised", "responded"}
            /\ Last(trace[c]) = Val(raisedAt[c])
            /\ state[c].final_report = None
            /\ result[c] = None
            /\ ~TerminalAudit(c)
            /\ IsSet(error[c])
            /\ pc[c] = "responded" =>
                  /\ Val(response[c]).status = 500
                  /\ Val(response[c]).detail =
                        Some("Processing error: " \o Val(error[c]))

\* The reason node failed and the caller answered with a 500.
C8_Witness ==
    \E c \in Cases :
        /\ raisedAt[c] = Some("reason")
        /\ pc[c] = "responded"
        /\ Val(response[c]).status = 500

\* The state check_medication can see: what invoke returned, or else the
\* initial_state it built.
CallerState(c) == IF Completed(c) THEN Val(result[c]) ELSE initial_state[c]

\* C9 as stated: when a stage fails, the failure reaches the caller together
\* with the case state as it was at the moment of failure, every field set by
\* the earlier stages still set with the value written.
C9_PartialStateVisible ==
    \A c \in Cases :
        IsSet(error[c]) =>
            \A f \in DOMAIN state[c] :
                IsSet(state[c][f]) => CallerState(c)[f] = state[c][f]

\* C9 as amended: when a stage fails only the exception reaches the caller.
\* invoke returns no state; the caller is left with the initial_state it
\* built, in which raw_note is the only field set, and answers with the
\* exception's text.  The fields the earlier stages wrote are still set in
\* the graph's own state at the moment of failure.
C9_OnlyTheExceptionPropagates ==
    \A c \in Cases :
        IsSet(error[c]) =>
            /\ result[c] = None
            /\ initial_state[c] = InitialState(state[c].raw_note)
            /\ IsSet(raisedAt[c])
            /\ \A f \in WrittenBefore(Val(raisedAt[c])) : IsSet(state[c][f])
            /\ pc[c] = "responded" =>
                  /\ Val(response[c]).report = None
                  /\ Val(response[c]).detail =
                        Some("Processing error: " \o Val(error[c]))

\* The critic node failed after extract, retrieve and reason had written
\* their fields; the caller holds an initial_state without them.
C9_Witness ==
    \E c \in Cases :
        /\ raisedAt[c] = Some("critic")
        /\ IsSet(error[c])
        /\ IsSet(state[c].risk_analysis)
        /\ initial_state[c].patient_profile = None
        /\ pc[c] = "responded"

\* C10: no retry: in a case run every stage is executed at most once and
\* every external service call is issued at most once per stage, whether the
\* stage succeeds or fails.
C10_NoRetry ==
    \A c \in Cases :
        /\ \A i, j \in 1..Len(trace[c]) : trace[c][i] = trace[c][j] => i = j
        /\ \A k \in DOMAIN calls[c] : calls[c][k] <= 1

\* A run that failed in the critic node after one call of each service it
\* reached, the index build included.
C10_Witness ==
    \E c \in Cases :
        /\ raisedAt[c] = Some("critic")
        /\ calls[c].extract = 1 /\ calls[c].build = 1 /\ calls[c].search = 1
        /\ calls[c].reason = 1 /\ calls[c].critic = 1

(* ------------------------------ audit events -------------------------- *)

\* The positions of the events tagged `event` among the audit events of c.
EventsOf(c, event) == {i \in 1..Len(audit[c]) : audit[c][i].event = event}

C12_OneTerminalAudit ==
    \A c \in Cases :
        /\ Cardinality(EventsOf(c, "clinical_report_generated"))
              = (IF IsSet(state[c].final_report) THEN 1 ELSE 0)
        /\ IsSet(state[c].final_report) =>
              /\ Occurs("report", trace[c])
              /\ Last(audit[c]) =
                    [event |-> "clinical_report_generated",
                     level |-> upper(Val(state[c].safety_flag).level)]
              /\ Last(audit[c]).level = Val(state[c].final_report).alert_level
        /\ (Completed(c) /\ IsSet(Val(result[c]).final_report)) =>
              Cardinality(EventsOf(c, "clinical_report_generated")) = 1
        /\ (Completed(c) /\ Val(result[c]).final_report = None) =>
              EventsOf(c, "clinical_report_generated") = {}
        /\ IsSet(error[c]) => EventsOf(c, "clinical_report_generated") = {}

\* A case completed with an info flag: the only audit event is the terminal
\* one, at level INFO.
C12_Witness ==
    \E c \in Cases :
        /\ pc[c] = "responded"
        /\ Completed(c)
        /\ Val(Val(result[c]).safety_flag).level = "info"
        /\ audit[c] = <<[event |-> "clinical_report_generated", level |-> "INFO"]>>

\* The reasoning service answered the critic of case c with the empty object.
EmptyObject(c) ==
    critic_output[c] = Some([level |-> None, reason |-> None])

\* C13: when the reasoning service returns an empty object to the critic
\* node, the node does not fail: it writes safety_flag = {level: info,
\* reason: ""} and the case continues to the report node.
C13_EmptyObjectIsInfo ==
    \A c \in Cases :
        EmptyObject(c) =>
            /\ raisedAt[c] # Some("critic")
            /\ state[c].safety_flag = Some([level |-> "info", reason |-> ""])
            /\ Occurs("report", trace[c]) \/ pc[c] = "report"

(* ------------------------- the shared index --------------------------- *)

\* The cases whose create_vectorstore built an index.
Built == {c \in Cases : IsSet(local_vs[c])}

\* C14: single-flight index build: however many runs reach the retrieve node
\* concurrently while the index is neither cached nor persisted, the build
\* executes at most once in total; no second caller starts a build.
C14_SingleFlightBuild ==
    Cardinality(Built) <= 1

\* C15: no case is served a half-built index: a load of the persisted path
\* only ever reads a path whose build and persistence are complete, and a
\* search only ever runs on an index that is completely built.
C15_NoHalfBuiltIndex ==
    \A c \in Cases :
        /\ error[c] # Some("RuntimeError: could not read index")
        /\ pc[c] = "search" => IsSet(g_vectorstore)

(* ------------------------------ isolation ----------------------------- *)

\* Everything that belongs to the run of case c.
CaseVars(c) ==
    <<pc[c], state[c], initial_state[c], result[c], error[c], raisedAt[c],
      extraction[c], trace[c], calls[c], audit[c], response[c], query[c],
      results[c], critic_output[c], local_vs[c]>>

\* What the nodes of case c derived from the state is derived from the state
\* of case c.
OwnState(c) ==
    /\ state[c].raw_note = initial_state[c].raw_note
    /\ IsSet(extraction[c]) /\ IsSet(state[c].patient_profile) =>
          state[c] = [state[c] EXCEPT
              !.patient_profile =
                  Some(dump_patient_profile(Val(extraction[c]).patient_profile)),
              !.proposed_medication =
                  Some(dump_proposed_medication(Val(extraction[c]).proposed_medication)),
              !.confidence = Some(Val(extraction[c]).extraction_confidence)]
    /\ IsSet(query[c]) =>
          query[c] = Some(BuildQuery(Val(state[c].patient_profile),
                                     Val(state[c].proposed_medication)))
    /\ IsSet(state[c].retrieved_guidelines) =>
          state[c].retrieved_guidelines = Some(FormatResults(Val(results[c])))
    /\ IsSet(state[c].final_report) =>
          /\ IsSet(state[c].risk_analysis) /\ IsSet(state[c].safety_flag)
          /\ state[c].final_report =
                Some(generate_clinical_report(Val(state[c].patient_profile),
                                              Val(state[c].proposed_medication),
                                              Val(state[c].risk_analysis),
                                              Val(state[c].safety_flag)))
    /\ Completed(c) => Val(result[c]) = state[c]
    /\ (IsSet(response[c]) /\ Val(response[c]).status = 200) =>
          Val(response[c]).report = state[c].final_report

\* C17: concurrent cases are isolated: each run owns its own state record; in
\* every interleaving of two runs a step of one case leaves the state (and
\* every local) of the other case as it was, and what a case's nodes write is
\* derived from that case's own state.
C17_Isolation ==
    /\ [](\A c \in Cases : OwnState(c))
    /\ [][\A c \in Cases : pc'[c] = pc[c] => CaseVars(c)' = CaseVars(c)]_vars

\* Two runs with different patient profiles are both answered with a report,
\* each built from its own profile.
C17_Witness ==
    \E c, d \in Cases :
        /\ state[c].patient_profile # state[d].patient_profile
        /\ pc[c] = "responded" /\ pc[d] = "responded"
        /\ Val(response[c]).status = 200 /\ Val(response[d]).status = 200
        /\ Val(response[c]).report # Val(response[d]).report

(* ------------------------------ the endpoint -------------------------- *)

\* C16: the endpoint maps the outcome of the run to the response: a run that
\* returned with final_report set is answered with a success built from
\* final_report; a run that returned with final_report unset is answered
\* with a 400 (passed through, not turned into a 500); a run that raised is
\* answered with a 500.
C16_ResponseMapping ==
    \A c \in Cases :
        IsSet(response[c]) =>
            LET r == Val(response[c]) IN
            /\ (Completed(c) /\ IsSet(Val(result[c]).final_report)) =>
                  /\ r.status = 200
                  /\ IsSet(r.report)
                  /\ \A f \in DOMAIN Val(r.report) :
                        Val(r.report)[f] = Val(Val(result[c]).final_report)[f]
            /\ (Completed(c) /\ Val(result[c]).final_report = None) =>
                  /\ r.status = 400
                  /\ r.report = None
            /\ IsSet(error[c]) =>
                  /\ r.status = 500
                  /\ r.report = None
                  /\ r.detail = Some("Processing error: " \o Val(error[c]))
            /\ Completed(c) # IsSet(error[c])

\* A run that returned without a report has been answered with a 400.
C16_Witness ==
    \E c \in Cases :
        /\ Completed(c)
        /\ Val(result[c]).final_report = None
        /\ IsSet(response[c])
        /\ Val(response[c]).status = 400

(* -------------------------- monotonic population ---------------------- *)

Populated == {"patient_profile", "proposed_medication", "confidence",
              "retrieved_guidelines", "risk_analysis", "safety_flag",
              "final_report"}

\* C18: monotonic population: when the run starts every field but the note
\* it was created with is unset, and once a field is set no later step of
\* the same run clears it or replaces its value (the note does not change
\* either).
C18_MonotonicPopulation ==
    /\ [](\A c \in Cases :
            pc[c] = "extract" => \A f \in Populated : state[c][f] = None)
    /\ [][\A c \in Cases :
            pc[c] \notin {"idle", "responded"} =>
                /\ state'[c].raw_note = state[c].raw_note
                /\ \A f \in Populated :
                      IsSet(state[c][f]) => state'[c][f] = state[c][f]]_vars

\* The run has been answered and every field is still set, the confidence
\* of the extraction included.
C18_Witness ==
    \E c \in Cases :
        /\ pc[c] = "responded"
        /\ \A f \in Populated : IsSet(state[c][f])
        /\ IsSet(extraction[c])
        /\ state[c].confidence = Some(Val(extraction[c]).extraction_confidence)

(* ------------------------------ the query ----------------------------- *)

C20_ResultsVerbatim ==
    \A c \in Cases :
        IsSet(state[c].retrieved_guidelines) =>
            /\ IsSet(results[c])
            /\ LET written == Val(state[c].retrieved_guidelines)
                   found == Val(results[c])
               IN  /\ Len(written) = Len(found)
                   /\ Len(written) <= TOP_K_RETRIEVAL
                   /\ \A i \in 1..Len(found) :
                         /\ DOMAIN written[i] = {"source", "page", "content"}
                         /\ written[i].source = found[i].metadata.source
                         /\ written[i].page = found[i].metadata.page
                         /\ written[i].content = found[i].page_content

\* A search over an index of more than TOP_K_RETRIEVAL chunks returned
\* TOP_K_RETRIEVAL results, the last chunk ranked first, and they were
\* written in that order.
C20_Witness ==
    \E c \in Cases :
        /\ IsSet(state[c].retrieved_guidelines)
        /\ Val(g_vectorstore).chunks > TOP_K_RETRIEVAL
        /\ Len(Val(state[c].retrieved_guidelines)) = TOP_K_RETRIEVAL
        /\ Val(state[c].retrieved_guidelines)[1].page = Val(g_vectorstore).chunks
        /\ Val(state[c].retrieved_guidelines)[2].page = 1

(* ------------------------------ the report ---------------------------- *)

\* C21: in every final_report, alert_level is the upper-cased
\* safety_flag.level, one of INFO, WARNING, CRITICAL; the report's confidence
\* is the capitalised risk_analysis.risk_level, one of Low, Moderate, High,
\* and does not depend on the extraction confidence: two reports rendered at
\* the same risk level carry the same confidence whatever state.confidence is.
C21_ReportLevels ==
    \A c \in Cases :
        IsSet(state[c].final_report) =>
            LET report == Val(state[c].final_report)
                level == Val(state[c].safety_flag).level
                risk_level == Val(state[c].risk_analysis).risk_level
            IN  /\ report.alert_level \in {"INFO", "WARNING", "CRITICAL"}
                /\ level = "info" <=> report.alert_level = "INFO"
                /\ level = "warning" <=> report.alert_level = "WARNING"
                /\ level = "critical" <=> report.alert_level = "CRITICAL"
                /\ report.confidence \in {"Low", "Moderate", "High"}
                /\ risk_level = "low" <=> report.confidence = "Low"
                /\ risk_level = "moderate" <=> report.confidence = "Moderate"
                /\ risk_level = "high" <=> report.confidence = "High"
                /\ \A d \in Cases :
                      (/\ IsSet(state[d].final_report)
                       /\ Val(state[d].risk_analysis).risk_level = risk_level)
                          => Val(state[d].final_report).confidence = report.confidence

\* Two reports at risk level moderate, rendered at extraction confidences
\* 0.75 and 1.00, both carry the confidence Moderate.
C21_Witness ==
    \E c, d \in Cases :
        /\ IsSet(state[c].final_report) /\ IsSet(state[d].final_report)
        /\ state[c].confidence = Some(75) /\ state[d].confidence = Some(100)
        /\ Val(state[c].final_report).confidence = "Moderate"
        /\ Val(state[d].final_report).confidence = "Moderate"
        /\ Val(state[c].final_report).alert_level = "CRITICAL"

C29_EvidenceStrings ==
    \A c \in Cases :
        IsSet(state[c].final_report) =>
            LET shown == Val(state[c].final_report).guideline_evidence
                evidence == Val(state[c].risk_analysis).evidence
            IN  /\ Len(shown) = Len(evidence)
                /\ \A i \in 1..Len(evidence) :
                      shown[i] = evidence[i].source \o " (page "
                                    \o ToString(evidence[i].page) \o ")"
                /\ shown = <<>> <=> evidence = <<>>

\* A report over two citations lists them in the order of the analysis.
C29_Witness ==
    \E c \in Cases :
        /\ IsSet(state[c].final_report)
        /\ Val(state[c].final_report).guideline_evidence
              = <<"nice.pdf (page 3)", "kdigo.pdf (page 12)">>

(* ------------------------------ round trip ---------------------------- *)

C24_ExtractionPassesGate ==
    \A c \in Cases :
        /\ IsSet(state[c].confidence) =>
              /\ Val(state[c].confidence) >= 75
              /\ Val(state[c].confidence) = Val(extraction[c]).extraction_confidence
        /\ (IsSet(extraction[c]) /\ raisedAt[c] # Some("extract")) =>
              /\ IsSet(state[c].confidence)
              /\ confidence_gate(state[c]) = "retrieve"
        /\ Occurs("gate", trace[c]) =>
              /\ Occurs("retrieve", trace[c]) \/ pc[c] = "retrieve"
              /\ ~(Completed(c) /\ Val(result[c]).final_report = None)
        /\ ~(pc[c] = "end" /\ state[c].final_report = None)

\* An extraction at exactly 0.75 was written and the gate let it through.
C24_Witness ==
    \E c \in Cases :
        /\ state[c].confidence = Some(75)
        /\ Last(trace[c]) = "gate"
        /\ pc[c] = "retrieve"

\* C25: when the extract node rejects the service output because the
\* returned confidence is below 0.75, it fails without writing anything:
\* patient_profile, proposed_medication and confidence (and every later
\* field) remain unset.
C25_RejectionWritesNothing ==
    \A c \in Cases :
        LowConfidence(c) =>
            /\ raisedAt[c] = Some("extract")
            /\ error[c] = Some("ValueError: Extraction confidence too low")
            /\ state[c].patient_profile = None
            /\ state[c].proposed_medication = None
            /\ state[c].confidence = None
            /\ state[c] = InitialState(state[c].raw_note)

\* An extraction at 0.74, just below the threshold, was rejected.
C25_Witness ==
    \E c \in Cases :
        /\ IsSet(extraction[c])
        /\ Val(extraction[c]).extraction_confidence = 74
        /\ pc[c] = "raised"
        /\ state[c].confidence = None

(* ------------------------------ the frame ----------------------------- *)

Fields == {"raw_note"} \cup Populated

\* The fields the stage at position `at` is specified to write.
Writes(at) ==
    CASE at = "extract" -> {"patient_profile", "proposed_medication", "confidence"}
      [] at \in {"retrieve"} \cup IndexSteps -> {"retrieved_guidelines"}
      [] at = "reason" -> {"risk_analysis"}
      [] at = "critic" -> {"safety_flag"}
      [] at = "report" -> {"final_report"}
      [] OTHER -> {}

\* C26: each stage changes only its own output fields and leaves every
\* other field, raw_note in particular, as it was: extract writes only
\* patient_profile, proposed_medication and confidence, retrieve only
\* retrieved_guidelines, reason only risk_analysis, critic only safety_flag,
\* report only final_report (and the gate writes nothing).
C26_Frame ==
    [][\A c \in Cases :
          pc[c] \notin {"idle", "responded"} =>
              \A f \in Fields \ Writes(pc[c]) : state'[c][f] = state[c][f]]_vars

\* Every stage has written its fields and the note is still the one the
\* case was created with.
C26_Witness ==
    \E c \in Cases :
        /\ pc[c] = "end"
        /\ \A f \in Populated : IsSet(state[c][f])
        /\ state[c].raw_note # <<>>
        /\ state[c].raw_note = initial_state[c].raw_note
        /\ state[c].retrieved_guidelines = Some(FormatResults(Val(results[c])))

(* --------------------------- the index on disk ------------------------ *)

\* C27: index acquisition by a single caller: if the persisted path exists
\* the index is loaded and no build runs; if it does not, the index is built
\* from the document directory and persisted, so that a later process finds
\* the path present and loads instead of rebuilding.
C27_LoadOrBuildOnce ==
    /\ [](/\ \A i, j \in 1..Len(index_log) :
                (i < j /\ index_log[i] \in {"load", "build"}) =>
                    index_log[j] # "build"
          /\ (Occurs("load", index_log) \/ Occurs("build", index_log)) =>
                disk = "complete")
    /\ [][\A c \in Cases :
            /\ (pc[c] = "vs_exists" /\ pc'[c] # "vs_exists") =>
                  pc'[c] = (IF disk = "absent" THEN "vs_build" ELSE "vs_load")
            /\ (pc[c] = "vs_load" /\ pc'[c] # "vs_load") =>
                  /\ pc'[c] \in {"search", "raised"}
                  /\ calls'[c].build = 0
                  /\ disk' = disk
                  /\ pc'[c] = "search" => g_vectorstore' = Some(Index(CorpusSize))
            /\ (pc[c] = "vs_build" /\ pc'[c] = "vs_save") =>
                  docs /\ local_vs'[c] = Some(Index(CorpusSize))
            /\ (pc[c] = "vs_saving" /\ pc'[c] = "search") =>
                  disk' = "complete" /\ g_vectorstore' = local_vs[c]]_vars
    /\ [][Restarts' > Restarts => disk' = disk]_vars

\* One process built and persisted the index, and the next process loaded
\* it.
C27_Witness ==
    /\ index_log = <<"build", "restart", "load">>
    /\ IsSet(g_vectorstore)
    /\ disk = "complete"

(* ----------------------- the index in the process --------------------- *)

\* The part of the history that belongs to the running process.
ThisProcess ==
    LET rs == {i \in 1..Len(index_log) : index_log[i] = "restart"}
        last == IF rs = {} THEN 0 ELSE CHOOSE i \in rs : \A k \in rs : k <= i
    IN SubSeq(index_log, last + 1, Len(index_log))

\* C28: for cases handled one after another in one process the index is
\* loaded or built at most once: after the first successful acquisition
\* every later retrieve reuses the cached index without loading or building;
\* if an acquisition attempt fails the cache stays empty, so the next case
\* attempts again.
C28_AcquiredOncePerProcess ==
    /\ [](/\ Len(ThisProcess) <= 1
          /\ IsSet(g_vectorstore) <=> Len(ThisProcess) = 1)
    /\ [][\A c \in Cases :
            /\ (IsSet(g_vectorstore) /\ Restarts' = Restarts) =>
                  /\ g_vectorstore' = g_vectorstore
                  /\ index_log' = index_log
                  /\ calls'[c].load <= calls[c].load
                  /\ calls'[c].build <= calls[c].build
                  /\ pc'[c] \notin {"vs_exists", "vs_load", "vs_build", "vs_save",
                                    "vs_saving"}
            /\ (pc[c] = "retrieve" /\ pc'[c] # "retrieve" /\ IsSet(g_vectorstore)) =>
                  pc'[c] = "search"
            /\ (pc[c] \in {"vs_load", "vs_build"} /\ pc'[c] = "raised") =>
                  /\ g_vectorstore' = None
                  /\ index_log' = index_log
            /\ (pc[c] = "retrieve" /\ pc'[c] # "retrieve" /\ g_vectorstore = None) =>
                  pc'[c] = "vs_exists"]_vars

\* A case was served from the index an earlier case of the same process
\* had acquired: it searched without a load or a build of its own.
C28_Witness ==
    \E c \in Cases :
        /\ pc[c] = "reason"
        /\ calls[c].search = 1
        /\ calls[c].load = 0
        /\ calls[c].build = 0
        /\ index_log \in {<<"load">>, <<"build">>}

(* ------------------------------ termination --------------------------- *)

\* How far a position is along a run.
Rank(at) ==
    CASE at = "extract" -> 1
      [] at = "gate" -> 2
      [] at = "retrieve" -> 3
      [] at = "vs_exists" -> 4
      [] at \in {"vs_load", "vs_build"} -> 5
      [] at = "vs_save" -> 6
      [] at = "vs_saving" -> 7
      [] at = "search" -> 8
      [] at = "reason" -> 9
      [] at = "critic" -> 10
      [] at = "report" -> 11
      [] at = "end" -> 12
      [] at \in {"returned", "raised"} -> 13
      [] OTHER -> 14

Running(c) == pc[c] \notin {"idle", "returned", "raised", "responded"}

\* The outcomes the run of case c has had.
Outcomes(c) ==
    {o \in {"completed", "halted", "failed"} :
        \/ o = "completed" /\ IsSet(result[c]) /\ IsSet(Val(result[c]).final_report)
        \/ o = "halted" /\ IsSet(result[c]) /\ Val(result[c]).final_report = None
        \/ o = "failed" /\ IsSet(error[c])}

\* C30: provided every external call returns or fails, every case run
\* terminates in exactly one of three outcomes: completed (final_report
\* set), halted (returned with final_report unset) or failed (an error
\* propagated); a run is never paused part-way and resumed: each of its
\* steps moves it forward, and once it is over it does not move again.
C30_Terminates ==
    /\ \A c \in Cases : (pc[c] = "extract") ~> (pc[c] \in {"returned", "raised"})
    /\ [](\A c \in Cases :
            /\ Running(c) => Outcomes(c) = {}
            /\ pc[c] \in {"returned", "raised", "responded"} =>
                  Cardinality(Outcomes(c)) = 1
            /\ pc[c] = "returned" => Outcomes(c) \subseteq {"completed", "halted"}
            /\ pc[c] = "raised" => Outcomes(c) = {"failed"})
    /\ [][\A c \in Cases :
            /\ (Running(c) /\ pc'[c] # pc[c]) => Rank(pc'[c]) > Rank(pc[c])
            /\ (Running(c) /\ pc'[c] = pc[c]) =>
                  state'[c] = state[c] /\ trace'[c] = trace[c]
            /\ (pc[c] \in {"returned", "raised"}) =>
                  /\ pc'[c] \in {pc[c], "responded"}
                  /\ state'[c] = state[c] /\ trace'[c] = trace[c]
                  /\ result'[c] = result[c] /\ error'[c] = error[c]]_vars

\* A run went through all six stages and returned with its report: its one
\* outcome is completed.
C30_Witness ==
    \E c \in Cases :
        /\ pc[c] = "returned"
        /\ Outcomes(c) = {"completed"}
        /\ trace[c] = StageOrder

====
